---- MODULE Spec2Model ----
(***************************************************************************)
(* Model of the AWS Cost Analysis API (src/app.py): one request-response   *)
(* cycle of the three provider-backed endpoints                             *)
(*   POST /costs/analyze, GET /costs/services, GET /costs/forecast.         *)
(*                                                                          *)
(* Conventions                                                              *)
(*  - A money amount is an integer number of thousandths of the currency    *)
(*    unit (10.00 is 10000, 0.004 is 4).                                    *)
(*  - A text that the code builds by concatenation or formatting is the     *)
(*    sequence of its parts (an f-string is the sequence of its pieces).    *)
(*  - A Python exception is a record [exc, ...]; the outcome of a piece of  *)
(*    code that may raise is [ok |-> TRUE, value |-> v] or                  *)
(*    [ok |-> FALSE, exc |-> e].                                            *)
(*  - boto3 and the billing provider are outside the repository: their      *)
(*    behaviour (credentials found or not, the answer to a call) is drawn   *)
(*    nondeterministically by the handler actions.                          *)
(***************************************************************************)
EXTENDS Integers, Sequences, FiniteSets, TLC

VARIABLES pc, request, credentials, calls, response

vars == <<pc, request, credentials, calls, response>>

(***************************************************************************)
(* Bounds of the model.                                                     *)
(***************************************************************************)
MaxBuckets == 2      \* time buckets in a provider answer
MaxGroups == 2       \* groups in one time bucket
MaxPoints == 2       \* points in a provider forecast
MaxLimit == 2        \* largest value of the limit query parameter

(***************************************************************************)
(* Generic helpers.                                                         *)
(***************************************************************************)
SeqsUpTo(S, n) == UNION {[1..k -> S] : k \in 0..n}

NonEmptySeqsUpTo(S, n) == UNION {[1..k -> S] : k \in 1..n}

Range(s) == {s[i] : i \in 1..Len(s)}

Min(a, b) == IF a <= b THEN a ELSE b

Max(a, b) == IF a >= b THEN a ELSE b

Ok(v) == [ok |-> TRUE, value |-> v]

Raise(e) == [ok |-> FALSE, exc |-> e]

(***************************************************************************)
(* Exceptions and their texts.                                              *)
(***************************************************************************)
HTTPException(status_code, detail) ==
    [exc |-> "HTTPException", status_code |-> status_code, detail |-> detail]

ClientError(msg) == [exc |-> "ClientError", msg |-> msg]

NoCredentialsError == [exc |-> "NoCredentialsError", msg |-> "Unable to locate credentials"]

EndpointConnectionError(msg) == [exc |-> "EndpointConnectionError", msg |-> msg]

ValueError(msg) == [exc |-> "ValueError", msg |-> msg]

TypeError(msg) == [exc |-> "TypeError", msg |-> msg]

KeyError(key) == [exc |-> "KeyError", msg |-> key]

StatusText(status_code) ==
    CASE status_code = 400 -> "400"
      [] status_code = 500 -> "500"
      [] OTHER -> "???"

\* str(e): an HTTPException prints as "<status_code>: <detail>", any other
\* exception as its message.
Str(e) ==
    IF e.exc = "HTTPException"
    THEN <<StatusText(e.status_code), ": ">> \o e.detail
    ELSE <<e.msg>>

(***************************************************************************)
(* Request inputs of POST /costs/analyze (CostRequest).                     *)
(***************************************************************************)
DateStrings == {"2024-01-01", "2024-01-03", "2024-01-03T00:00:00Z", "yesterday"}

Granularities == {"DAILY"}

None == "<None>"

\* group_by: omitted (None), the empty string, or a dimension name
GroupBys == {None, "", "SERVICE"}

CostRequest ==
    [start_date : DateStrings, end_date : DateStrings,
     granularity : Granularities, group_by : GroupBys]

\* Python truthiness of an Optional[str]
Truthy(s) == s # None /\ s # ""

\* s.replace('Z', '+00:00')
ReplaceZ(s) ==
    IF s = "2024-01-03T00:00:00Z" THEN "2024-01-03T00:00:00+00:00" ELSE s

\* datetime.fromisoformat(s): a datetime is [day, tz], day counted from
\* 2024-01-01 = 1 and tz "naive" or "utc"; a text that is no ISO date raises.
fromisoformat(s) ==
    CASE s = "2024-01-01" -> Ok([day |-> 1, tz |-> "naive"])
      [] s = "2024-01-03" -> Ok([day |-> 3, tz |-> "naive"])
      [] s = "2024-01-03T00:00:00+00:00" -> Ok([day |-> 3, tz |-> "utc"])
      [] OTHER -> Raise(ValueError("Invalid isoformat string"))

\* d.strftime('%Y-%m-%d'): the date of d as text, without time and zone
strftime(d) == <<"%Y-%m-%d", d.day>>

\* a >= b on datetimes: a naive and an aware datetime do not compare
DatetimeGe(a, b) ==
    IF a.tz # b.tz
    THEN Raise(TypeError("can't compare offset-naive and offset-aware datetimes"))
    ELSE Ok(a.day >= b.day)

\* Lines 53-58: parse both dates, then require start < end.
ValidateDates(req) ==
    LET start_date == fromisoformat(ReplaceZ(req.start_date))
        end_date == fromisoformat(ReplaceZ(req.end_date))
    IN  IF ~start_date.ok THEN start_date
        ELSE IF ~end_date.ok THEN end_date
        ELSE LET ge == DatetimeGe(start_date.value, end_date.value)
             IN  IF ~ge.ok THEN ge
                 ELSE IF ge.value
                 THEN Raise(HTTPException(400, <<"Start date must be before end date">>))
                 ELSE Ok([start_date |-> start_date.value, end_date |-> end_date.value])

\* Lines 60-72: the keyword arguments of the provider query; GroupBy is a
\* key of the query only when group_by is truthy.
BuildQuery(req, dates) ==
    LET TimePeriod == [Start |-> strftime(dates.start_date),
                       End |-> strftime(dates.end_date)]
        Metrics == <<"BlendedCost", "UnblendedCost", "UsageQuantity">>
    IN  IF Truthy(req.group_by)
        THEN [TimePeriod |-> TimePeriod, Granularity |-> req.granularity,
              Metrics |-> Metrics,
              GroupBy |-> <<[Type |-> "DIMENSION", Key |-> req.group_by]>>]
        ELSE [TimePeriod |-> TimePeriod, Granularity |-> req.granularity,
              Metrics |-> Metrics]

(***************************************************************************)
(* Provider answers to get_cost_and_usage.                                  *)
(***************************************************************************)
Amounts == {"0.004", "10.00"}

\* float(s) of a provider amount, in thousandths
Float(s) ==
    CASE s = "0.004" -> 4
      [] s = "10.00" -> 10000
      [] OTHER -> 0

Metric(amount) == [BlendedCost |-> [Amount |-> amount, Unit |-> "USD"]]

\* The groups a bucket is built from: one without a key, and two services,
\* one of which costs as much as the keyless group.
Group ==
    {[Keys |-> <<>>, Metrics |-> Metric("10.00")],
     [Keys |-> <<"EC2">>, Metrics |-> Metric("0.004")],
     [Keys |-> <<"S3">>, Metrics |-> Metric("10.00")]}

\* The i-th time bucket of an answer covers the i-th day.
PeriodOf(i) == [Start |-> <<"%Y-%m-%d", i>>, End |-> <<"%Y-%m-%d", i + 1>>]

\* The group lists of a bucket: a key comes at most once in a bucket.
GroupLists ==
    {g \in NonEmptySeqsUpTo(Group, MaxGroups) :
        \A i, j \in 1..Len(g) : g[i].Keys = g[j].Keys => i = j}

\* What a bucket carries besides its period: groups and an empty Total ...
GroupedBodies == {[Groups |-> g, Total |-> <<>>] : g \in GroupLists}

\* ... or no groups and a Total that has the metric or lacks it.
UngroupedBodies ==
    {[Groups |-> <<>>, Total |-> t] : t \in {Metric(a) : a \in Amounts} \cup {<<>>}}

\* The time buckets of an answer, from what each carries.
WithPeriods(bodies) ==
    [i \in 1..Len(bodies) |->
        [TimePeriod |-> PeriodOf(i), Groups |-> bodies[i].Groups, Total |-> bodies[i].Total]]

ProviderMessages == {"ThrottlingException: Rate exceeded"}

\* How a provider call made with working credentials can fail: an error
\* reported by the provider, or a failure to reach it.
ProviderErrors ==
    {ClientError(m) : m \in ProviderMessages}
    \cup {EndpointConnectionError(m) : m \in ProviderMessages}

(***************************************************************************)
(* get_cost_explorer_client (lines 28-35).  boto3.client may raise          *)
(* NoCredentialsError when no credentials are configured (atClient), or     *)
(* hand out a client whose calls raise it.                                  *)
(***************************************************************************)
get_cost_explorer_client(creds, atClient) ==
    IF creds = "absent" /\ atClient
    THEN Raise(HTTPException(500,
             <<"AWS credentials not configured. Please set AWS_ACCESS_KEY_ID and AWS_SECRET_ACCESS_KEY environment variables.">>))
    ELSE Ok([service |-> "ce", region_name |-> "ap-south-1", credentials |-> creds])

\* Whether calls through the client fail for want of credentials.
Uncredentialed(client) == client.credentials = "absent"

(***************************************************************************)
(* analyze_costs: processing of the answer (lines 78-115).                  *)
(***************************************************************************)
\* Lines 78-81: the accumulators before the loop; raised holds the exception
\* that ended the loop, if any.
InitialAccumulator ==
    [total_cost |-> 0, currency |-> "USD", data |-> <<>>, labels |-> <<>>,
     raised |-> <<>>]

\* Lines 90-101: one group of a grouped bucket.
ProcessGroup(acc, period, group) ==
    LET group_key == IF group.Keys # <<>> THEN group.Keys[1] ELSE "Unknown"
        cost == Float(group.Metrics.BlendedCost.Amount)
        currency == group.Metrics.BlendedCost.Unit
    IN  [acc EXCEPT !.total_cost = @ + cost,
                    !.currency = currency,
                    !.data = Append(@, [period_start |-> period.Start,
                                        period_end |-> period.End,
                                        group |-> group_key,
                                        cost |-> cost,
                                        currency |-> currency])]

\* ProcessGroups that handles the first group only.
ProcessGroups_FirstOnly(acc, period, groups) ==
    IF groups = <<>> THEN acc
    ELSE ProcessGroup(acc, period, Head(groups))

RECURSIVE ProcessGroups(_, _, _)
\* Line 89: for group in result['Groups']
ProcessGroups(acc, period, groups) ==
    IF groups = <<>> THEN acc
    ELSE ProcessGroups(ProcessGroup(acc, period, Head(groups)), period, Tail(groups))

\* ProcessTotal with line 105 (total_cost += cost) left out.
ProcessTotal_NoAdd(acc, period, total) ==
    IF "BlendedCost" \notin DOMAIN total
    THEN [acc EXCEPT !.raised = <<KeyError("'BlendedCost'")>>]
    ELSE LET cost == Float(total.BlendedCost.Amount)
             currency == total.BlendedCost.Unit
         IN  [acc EXCEPT !.currency = currency,
                         !.data = Append(@, [period_start |-> period.Start,
                                             period_end |-> period.End,
                                             cost |-> cost,
                                             currency |-> currency]),
                         !.labels = Append(@, period.Start)]

\* Lines 104-115: a bucket without groups; its record has no 'group' key.
ProcessTotal(acc, period, total) ==
    IF "BlendedCost" \notin DOMAIN total
    THEN [acc EXCEPT !.raised = <<KeyError("'BlendedCost'")>>]
    ELSE LET cost == Float(total.BlendedCost.Amount)
             currency == total.BlendedCost.Unit
         IN  [acc EXCEPT !.total_cost = @ + cost,
                         !.currency = currency,
                         !.data = Append(@, [period_start |-> period.Start,
                                             period_end |-> period.End,
                                             cost |-> cost,
                                             currency |-> currency]),
                         !.labels = Append(@, period.Start)]

\* ProcessResult with line 115 moved out of the else branch's end to the
\* front of the list.
ProcessResult_LabelInFront(acc, result) ==
    IF result.Groups # <<>>
    THEN ProcessGroups(acc, result.TimePeriod, result.Groups)
    ELSE LET done == ProcessTotal(acc, result.TimePeriod, result.Total)
         IN  IF done.raised # <<>> THEN done
             ELSE [done EXCEPT !.labels = <<result.TimePeriod.Start>> \o acc.labels]

\* Lines 84-115: one time bucket.
ProcessResult(acc, result) ==
    IF result.Groups # <<>>
    THEN ProcessGroups(acc, result.TimePeriod, result.Groups)
    ELSE ProcessTotal(acc, result.TimePeriod, result.Total)

RECURSIVE ProcessResults(_, _)
\* Line 83: for result in response['ResultsByTime']; an exception ends it.
ProcessResults(acc, results) ==
    IF results = <<>> \/ acc.raised # <<>> THEN acc
    ELSE ProcessResults(ProcessResult(acc, Head(results)), Tail(results))

(***************************************************************************)
(* analyze_costs: chart data (lines 117-145).                               *)
(***************************************************************************)
colors ==
    <<"rgb(255, 99, 132)", "rgb(54, 162, 235)", "rgb(255, 205, 86)",
      "rgb(75, 192, 192)", "rgb(153, 102, 255)", "rgb(255, 159, 64)">>

\* item.get('group', 'Unknown')
GroupNameOf(item) == IF "group" \in DOMAIN item THEN item.group ELSE "Unknown"

\* Lines 120-125
SimpleDatasets(data) ==
    <<[label |-> "Cost",
       data |-> [i \in 1..Len(data) |-> data[i].cost],
       borderColor |-> "rgb(75, 192, 192)",
       backgroundColor |-> "rgba(75, 192, 192, 0.2)"]>>

\* AddToGroups without the test of line 131: every item opens an entry.
AddToGroups_NoMerge(groups, item) ==
    Append(groups, [name |-> GroupNameOf(item), costs |-> <<item.cost>>])

\* Lines 131-133: groups is an insertion-ordered dict, here the sequence of
\* its (name, costs) entries.
AddToGroups(groups, item) ==
    LET group_name == GroupNameOf(item)
    IN  IF \E k \in 1..Len(groups) : groups[k].name = group_name
        THEN [k \in 1..Len(groups) |->
                 IF groups[k].name = group_name
                 THEN [groups[k] EXCEPT !.costs = Append(@, item.cost)]
                 ELSE groups[k]]
        ELSE Append(groups, [name |-> group_name, costs |-> <<item.cost>>])

RECURSIVE GroupCosts(_, _)
\* Lines 128-133
GroupCosts(groups, data) ==
    IF data = <<>> THEN groups
    ELSE GroupCosts(AddToGroups(groups, Head(data)), Tail(data))

\* colors[i % len(colors)] for the 0-based index i
ColorAt(i) == colors[(i % Len(colors)) + 1]

\* Lines 135-145; the background colour is the border colour with 'rgb'
\* turned into 'rgba' and ', 0.2)' in place of ')'.
GroupedDatasets(data) ==
    LET groups == GroupCosts(<<>>, data)
    IN  [k \in 1..Len(groups) |->
            [label |-> groups[k].name,
             data |-> groups[k].costs,
             borderColor |-> ColorAt(k - 1),
             backgroundColor |-> <<"rgba-of", ColorAt(k - 1), "0.2">>]]

\* Lines 117-145
ChartData(group_by, acc) ==
    [labels |-> acc.labels,
     datasets |-> IF ~Truthy(group_by) THEN SimpleDatasets(acc.data)
                  ELSE GroupedDatasets(acc.data)]

\* round(x, 2) on thousandths: to the nearest hundredth, a tie to the even one
Round2(x) ==
    LET q == x \div 10
        r == x % 10
    IN  10 * (IF r < 5 THEN q
              ELSE IF r > 5 THEN q + 1
              ELSE IF q % 2 = 0 THEN q ELSE q + 1)

\* Lines 147-152
CostResponse(group_by, acc) ==
    [total_cost |-> Round2(acc.total_cost),
     currency |-> acc.currency,
     data |-> acc.data,
     chart_data |-> ChartData(group_by, acc)]

(***************************************************************************)
(* The except clauses shared by the three handlers, and the framework's     *)
(* rendering of the handler's outcome as an HTTP response.                  *)
(***************************************************************************)
\* ExceptClauses with a fixed detail in place of str(e).
ExceptClauses_NoCause(e) ==
    IF e.exc = "ClientError"
    THEN HTTPException(500, <<"AWS API Error: ">>)
    ELSE HTTPException(500, <<"Internal error: ">>)

\* except ClientError ... / except Exception ...
ExceptClauses(e) ==
    IF e.exc = "ClientError"
    THEN HTTPException(500, <<"AWS API Error: ">> \o Str(e))
    ELSE HTTPException(500, <<"Internal error: ">> \o Str(e))

\* The response of a handler whose try body ended with outcome.
Respond(outcome) ==
    IF outcome.ok
    THEN [status |-> 200, body |-> outcome.value]
    ELSE LET e == ExceptClauses(outcome.exc)
         IN  [status |-> e.status_code, body |-> [detail |-> e.detail]]

(***************************************************************************)
(* analyze_costs (lines 45-157).  atClient and answer are the environment's *)
(* choices: where missing credentials show, and how the provider call ends. *)
(***************************************************************************)
\* Lines 51-72: up to the provider call; the value is the client and the
\* query the call is made with.
AnalyzePrelude(req, creds, atClient) ==
    LET ce_client == get_cost_explorer_client(creds, atClient)
        dates == ValidateDates(req)
    IN  IF ~ce_client.ok THEN ce_client
        ELSE IF ~dates.ok THEN dates
        ELSE Ok([ce_client |-> ce_client.value,
                 query |-> BuildQuery(req, dates.value)])

\* Lines 75-152: from the answer of the provider call to the return.
AnalyzeAnswer(req, answer) ==
    IF ~answer.ok THEN answer
    ELSE LET acc == ProcessResults(InitialAccumulator, answer.value.ResultsByTime)
         IN  IF acc.raised # <<>> THEN Raise(acc.raised[1])
             ELSE Ok(CostResponse(req.group_by, acc))

\* Line 75: the one provider call of the handler, as logged in calls.
AnalyzeCalls(query, answer) ==
    <<[api |-> "get_cost_and_usage", kwargs |-> query, answer |-> answer]>>

\* The handler's end once the provider call ended with answer.
AnalyzeFinish(req, query, answer) ==
    /\ calls' = AnalyzeCalls(query, answer)
    /\ response' = Respond(AnalyzeAnswer(req, answer))

\* POST /costs/analyze
analyze_costs ==
    /\ pc = "idle"
    /\ pc' = "done"
    /\ \E req \in CostRequest, creds \in {"present", "absent"}, atClient \in BOOLEAN :
          LET pre == AnalyzePrelude(req, creds, atClient)
          IN  /\ request' = [endpoint |-> "/costs/analyze", params |-> req]
              /\ credentials' = creds
              /\ IF ~pre.ok
                 THEN /\ calls' = <<>>
                      /\ response' = Respond(pre)
                 ELSE IF Uncredentialed(pre.value.ce_client)
                 THEN AnalyzeFinish(req, pre.value.query, Raise(NoCredentialsError))
                 ELSE \/ \E k \in 0..MaxBuckets :
                           \E b \in [1..k -> GroupedBodies \cup UngroupedBodies] :
                              AnalyzeFinish(req, pre.value.query,
                                            Ok([ResultsByTime |-> WithPeriods(b)]))
                      \/ \E e \in ProviderErrors :
                           AnalyzeFinish(req, pre.value.query, Raise(e))

(***************************************************************************)
(* get_top_services (lines 159-206).                                        *)
(***************************************************************************)
\* The days query parameter, and the day datetime.now() falls on.
DaysValues == {30}

Clock == {100}

\* limit is any integer the caller sends
LimitValues == -1..MaxLimit

\* Lines 170-181: the keyword arguments of the provider query.
ServicesQuery(now, days) ==
    LET end_date == [day |-> now, tz |-> "naive"]
        start_date == [day |-> now - days, tz |-> "naive"]
    IN  [TimePeriod |-> [Start |-> strftime(start_date), End |-> strftime(end_date)],
         Granularity |-> "MONTHLY",
         Metrics |-> <<"BlendedCost">>,
         GroupBy |-> <<[Type |-> "DIMENSION", Key |-> "SERVICE"]>>]

\* Lines 186-192: services is an insertion-ordered dict, here the sequence
\* of its (service, cost) items.
AddService(services, group) ==
    LET service == IF group.Keys # <<>> THEN group.Keys[1] ELSE "Unknown"
        cost == Float(group.Metrics.BlendedCost.Amount)
    IN  IF \E k \in 1..Len(services) : services[k].service = service
        THEN [k \in 1..Len(services) |->
                 IF services[k].service = service
                 THEN [services[k] EXCEPT !.cost = @ + cost]
                 ELSE services[k]]
        ELSE Append(services, [service |-> service, cost |-> cost])

RECURSIVE SumGroups(_, _)
\* Line 185: for group in result['Groups']
SumGroups(services, groups) ==
    IF groups = <<>> THEN services
    ELSE SumGroups(AddService(services, Head(groups)), Tail(groups))

RECURSIVE SumServices(_, _)
\* Lines 183-192
SumServices(services, results) ==
    IF results = <<>> THEN services
    ELSE SumServices(SumGroups(services, Head(results).Groups), Tail(results))

\* InsertDescending without reverse=True: x goes behind every item that
\* costs at most as much.
InsertAscending(sorted, x) ==
    LET before == Cardinality({k \in 1..Len(sorted) : sorted[k].cost <= x.cost})
    IN  SubSeq(sorted, 1, before) \o <<x>> \o SubSeq(sorted, before + 1, Len(sorted))

\* InsertDescending of an unstable sort: x goes in front of the items that
\* cost the same.
InsertDescending_BeforeTies(sorted, x) ==
    LET before == Cardinality({k \in 1..Len(sorted) : sorted[k].cost > x.cost})
    IN  SubSeq(sorted, 1, before) \o <<x>> \o SubSeq(sorted, before + 1, Len(sorted))

\* Where x goes in the list sorted so far: behind every item that costs at
\* least as much (the sort is stable, and reverse=True keeps it so).
InsertDescending(sorted, x) ==
    LET before == Cardinality({k \in 1..Len(sorted) : sorted[k].cost >= x.cost})
    IN  SubSeq(sorted, 1, before) \o <<x>> \o SubSeq(sorted, before + 1, Len(sorted))

RECURSIVE SortedDescending(_, _)
\* sorted(items, key=lambda x: x[1], reverse=True)
SortedDescending(sorted, items) ==
    IF items = <<>> THEN sorted
    ELSE SortedDescending(InsertDescending(sorted, Head(items)), Tail(items))

\* s[:limit]: the first limit items, or all but the last -limit ones
SliceTo(s, limit) ==
    IF limit >= 0 THEN SubSeq(s, 1, Min(limit, Len(s)))
    ELSE SubSeq(s, 1, Max(0, Len(s) + limit))

\* Line 195
TopServices(services, limit) == SliceTo(SortedDescending(<<>>, services), limit)

\* Lines 197-201
ServicesBody(services, limit, days) ==
    LET top_services == TopServices(services, limit)
    IN  [top_services |-> [k \in 1..Len(top_services) |->
                              [service |-> top_services[k].service,
                               cost |-> Round2(top_services[k].cost)]],
         total_services |-> Len(services),
         period_days |-> days]

\* Lines 183-201: from the answer of the provider call to the return.
ServicesAnswer(params, answer) ==
    IF ~answer.ok THEN answer
    ELSE Ok(ServicesBody(SumServices(<<>>, answer.value.ResultsByTime),
                         params.limit, params.days))

\* Line 173: the one provider call of the handler, as logged in calls.
ServicesCalls(query, answer) ==
    <<[api |-> "get_cost_and_usage", kwargs |-> query, answer |-> answer]>>

ServicesFinish(params, query, answer) ==
    /\ calls' = ServicesCalls(query, answer)
    /\ response' = Respond(ServicesAnswer(params, answer))

\* A time bucket of a query grouped by service: groups, or none.
ServiceBodies == GroupedBodies \cup {[Groups |-> <<>>, Total |-> <<>>]}

\* GET /costs/services
get_top_services ==
    /\ pc = "idle"
    /\ pc' = "done"
    /\ \E days \in DaysValues, limit \in LimitValues, now \in Clock,
          creds \in {"present", "absent"}, atClient \in BOOLEAN :
          LET params == [days |-> days, limit |-> limit]
              ce_client == get_cost_explorer_client(creds, atClient)
              query == ServicesQuery(now, days)
          IN  /\ request' = [endpoint |-> "/costs/services", params |-> params]
              /\ credentials' = creds
              /\ IF ~ce_client.ok
                 THEN /\ calls' = <<>>
                      /\ response' = Respond(ce_client)
                 ELSE IF Uncredentialed(ce_client.value)
                 THEN ServicesFinish(params, query, Raise(NoCredentialsError))
                 ELSE \/ \E k \in 0..MaxBuckets :
                           \E b \in [1..k -> ServiceBodies] :
                              ServicesFinish(params, query,
                                             Ok([ResultsByTime |-> WithPeriods(b)]))
                      \/ \E e \in ProviderErrors :
                           ServicesFinish(params, query, Raise(e))

(***************************************************************************)
(* get_cost_forecast (lines 458-497).                                       *)
(***************************************************************************)
\* Lines 466-476: the keyword arguments of the provider query.
ForecastQuery(now, days) ==
    LET start_date == [day |-> now, tz |-> "naive"]
        end_date == [day |-> now + days, tz |-> "naive"]
    IN  [TimePeriod |-> [Start |-> strftime(start_date), End |-> strftime(end_date)],
         Metric |-> "BLENDED_COST",
         Granularity |-> "DAILY"]

\* What a forecast point carries besides its period.
PointBodies ==
    [MeanValue : Amounts, PredictionIntervalLowerBound : {"0.004"},
     PredictionIntervalUpperBound : Amounts]

\* The points of a forecast, from what each carries.
WithForecastPeriods(bodies) ==
    [i \in 1..Len(bodies) |->
        [TimePeriod |-> PeriodOf(i),
         MeanValue |-> bodies[i].MeanValue,
         PredictionIntervalLowerBound |-> bodies[i].PredictionIntervalLowerBound,
         PredictionIntervalUpperBound |-> bodies[i].PredictionIntervalUpperBound]]

\* Lines 480-485
ForecastEntry(result) ==
    [date |-> result.TimePeriod.Start,
     mean_value |-> Float(result.MeanValue),
     prediction_interval_lower |-> Float(result.PredictionIntervalLowerBound),
     prediction_interval_upper |-> Float(result.PredictionIntervalUpperBound)]

RECURSIVE ForecastData(_, _)
\* ForecastData with each entry put in front of the list, not behind it.
ForecastData_Prepending(forecast_data, results) ==
    IF results = <<>> THEN forecast_data
    ELSE ForecastData(<<ForecastEntry(Head(results))>> \o forecast_data, Tail(results))

\* Lines 478-485
ForecastData(forecast_data, results) ==
    IF results = <<>> THEN forecast_data
    ELSE ForecastData(Append(forecast_data, ForecastEntry(Head(results))), Tail(results))

RECURSIVE SumMeanValues(_)
\* sum(item['mean_value'] for item in forecast_data)
SumMeanValues(forecast_data) ==
    IF forecast_data = <<>> THEN 0
    ELSE Head(forecast_data).mean_value + SumMeanValues(Tail(forecast_data))

\* Lines 487-492
ForecastBody(forecast_data, days) ==
    [forecast_data |-> forecast_data,
     total_forecast |-> SumMeanValues(forecast_data),
     currency |-> "USD",
     forecast_days |-> days]

\* Lines 478-492: from the answer of the provider call to the return.
ForecastAnswer(params, answer) ==
    IF ~answer.ok THEN answer
    ELSE Ok(ForecastBody(ForecastData(<<>>, answer.value.ForecastResultsByTime),
                         params.days))

\* Line 469: the one provider call of the handler, as logged in calls.
ForecastCalls(query, answer) ==
    <<[api |-> "get_cost_forecast", kwargs |-> query, answer |-> answer]>>

ForecastFinish(params, query, answer) ==
    /\ calls' = ForecastCalls(query, answer)
    /\ response' = Respond(ForecastAnswer(params, answer))

\* GET /costs/forecast
get_cost_forecast ==
    /\ pc = "idle"
    /\ pc' = "done"
    /\ \E days \in DaysValues, now \in Clock,
          creds \in {"present", "absent"}, atClient \in BOOLEAN :
          LET params == [days |-> days]
              ce_client == get_cost_explorer_client(creds, atClient)
              query == ForecastQuery(now, days)
          IN  /\ request' = [endpoint |-> "/costs/forecast", params |-> params]
              /\ credentials' = creds
              /\ IF ~ce_client.ok
                 THEN /\ calls' = <<>>
                      /\ response' = Respond(ce_client)
                 ELSE IF Uncredentialed(ce_client.value)
                 THEN ForecastFinish(params, query, Raise(NoCredentialsError))
                 ELSE \/ \E k \in 0..MaxPoints :
                           \E b \in [1..k -> PointBodies] :
                              ForecastFinish(params, query,
                                  Ok([ForecastResultsByTime |-> WithForecastPeriods(b)]))
                      \/ \E e \in ProviderErrors :
                           ForecastFinish(params, query, Raise(e))

(***************************************************************************)
(* Specification.                                                           *)
(***************************************************************************)
Init ==
    /\ pc = "idle"
    /\ request = None
    /\ credentials = None
    /\ calls = <<>>
    /\ response = None

Next ==
    \/ analyze_costs
    \/ get_top_services
    \/ get_cost_forecast

Spec == Init /\ [][Next]_vars

(***************************************************************************)
(* Properties.                                                              *)
(***************************************************************************)
Done(endpoint) == pc = "done" /\ request.endpoint = endpoint

Succeeded(endpoint) == Done(endpoint) /\ response.status = 200

IsClientErrorStatus(status) == status >= 400 /\ status <= 499

Parses(s) == fromisoformat(ReplaceZ(s)).ok

Parsed(s) == fromisoformat(ReplaceZ(s)).value

\* The answer of the provider call of a request that made one and got one.
ProviderResults == calls[1].answer.value.ResultsByTime

RECURSIVE SumCosts(_)
SumCosts(data) ==
    IF data = <<>> THEN 0 ELSE Head(data).cost + SumCosts(Tail(data))

\* C1: a POST /costs/analyze (credentials in place) whose dates both parse,
\* compare, and have start_date >= end_date ends in a 4xx response, without
\* any provider call.
C1_InvertedRangeIsClientError ==
    (/\ Done("/costs/analyze")
     /\ credentials = "present"
     /\ Parses(request.params.start_date)
     /\ Parses(request.params.end_date)
     /\ Parsed(request.params.start_date).tz = Parsed(request.params.end_date).tz
     /\ Parsed(request.params.start_date).day >= Parsed(request.params.end_date).day)
    => (IsClientErrorStatus(response.status) /\ calls = <<>>)

\* C2: a POST /costs/analyze (credentials in place) whose start_date or
\* end_date does not parse as a date ends in a 4xx response, without any
\* provider call.
C2_UnparseableDateIsClientError ==
    (/\ Done("/costs/analyze")
     /\ credentials = "present"
     /\ (~Parses(request.params.start_date) \/ ~Parses(request.params.end_date)))
    => (IsClientErrorStatus(response.status) /\ calls = <<>>)

\* C3: in every successful POST /costs/analyze, total_cost is the sum of the
\* cost fields of the records of data, rounded to 2 decimals.
C3_TotalIsRoundedSumOfRecords ==
    Succeeded("/costs/analyze")
    => response.body.total_cost = Round2(SumCosts(response.body.data))

\* C3 witness: a success with grouped and ungrouped records whose total
\* differs from the unrounded sum.
C3_Witness ==
    /\ Succeeded("/costs/analyze")
    /\ Len(response.body.data) >= 3
    /\ \E i \in 1..Len(response.body.data) : "group" \in DOMAIN response.body.data[i]
    /\ \E i \in 1..Len(response.body.data) : "group" \notin DOMAIN response.body.data[i]
    /\ response.body.total_cost # SumCosts(response.body.data)

\* The label of a returned group: its first key, "Unknown" for none.
LabelOf(group) == IF group.Keys = <<>> THEN "Unknown" ELSE group.Keys[1]

\* The distinct labels of the groups in the provider's results.
LabelsIn(results) ==
    UNION {{LabelOf(results[i].Groups[k]) : k \in 1..Len(results[i].Groups)} :
              i \in 1..Len(results)}

\* Whether some bucket of the results has an empty Groups list.
HasUngroupedBucket(results) == \E i \in 1..Len(results) : results[i].Groups = <<>>

Datasets == response.body.chart_data.datasets

\* C4 as stated: a success without group_by has exactly one series; a success
\* with group_by has as many series as there are distinct group labels in
\* the provider's results (an empty group_by read as omitted, as the code
\* reads it).
C4_SeriesPerObservedLabel ==
    Succeeded("/costs/analyze")
    => IF request.params.group_by \in {None, ""}
       THEN Len(Datasets) = 1
       ELSE Len(Datasets) = Cardinality(LabelsIn(ProviderResults))

\* C4 amended: a success whose group_by is omitted or empty has exactly one
\* series; a success with a non-empty group_by has one series per distinct
\* group label in the provider's results, plus a series "Unknown" when some
\* bucket has an empty Groups list and no group is labelled "Unknown".
C4_SeriesPerLabelWithUnknown ==
    Succeeded("/costs/analyze")
    => IF request.params.group_by \in {None, ""}
       THEN Len(Datasets) = 1
       ELSE /\ Len(Datasets) =
                 Cardinality(LabelsIn(ProviderResults)
                     \cup (IF HasUngroupedBucket(ProviderResults)
                           THEN {"Unknown"} ELSE {}))
            /\ \A i, j \in 1..Len(Datasets) :
                 Datasets[i].label = Datasets[j].label => i = j

\* C4 witness: a grouped success with three series, one of them for a bucket
\* without groups.
C4_Witness ==
    /\ Succeeded("/costs/analyze")
    /\ request.params.group_by = "SERVICE"
    /\ HasUngroupedBucket(ProviderResults)
    /\ Cardinality(LabelsIn(ProviderResults)) = 2
    /\ Len(Datasets) = 3

\* The returned list of top services.
TopServicesList == response.body.top_services

IsGenericInternalFailure(resp) ==
    /\ resp.status = 500
    /\ "detail" \in DOMAIN resp.body
    /\ Head(resp.body.detail) = "Internal error: "

\* C6: without provider credentials, each of the three endpoints answers
\* with an error that differs from the generic internal-failure response by
\* status or by the kind of its detail.
C6_MissingCredentialsReportedDistinctly ==
    (pc = "done" /\ credentials = "absent")
    => (response.status # 200 /\ ~IsGenericInternalFailure(response))

\* Whether a call of the log ended in an exception.
Failed(call) == ~call.answer.ok

\* C7: when the provider call of a request fails, it is the only provider
\* call of the request, and the response is an internal error whose detail
\* embeds the provider's message and that carries nothing but the detail.
C7_ProviderFailureAbortsOnce ==
    (pc = "done" /\ \E i \in 1..Len(calls) : Failed(calls[i]))
    => /\ Len(calls) = 1
       /\ response.status = 500
       /\ DOMAIN response.body = {"detail"}
       /\ calls[1].answer.exc.msg \in Range(response.body.detail)

\* C7 witness: a request of each kind is possible; here /costs/services with
\* an error reported by the provider.
C7_Witness ==
    /\ Done("/costs/services")
    /\ Len(calls) = 1
    /\ Failed(calls[1])
    /\ calls[1].answer.exc.exc = "ClientError"
    /\ response.status = 500

ForecastPoints == calls[1].answer.value.ForecastResultsByTime

RECURSIVE SumOver(_, _)
\* The sum of f[1], ..., f[n]
SumOver(f, n) == IF n = 0 THEN 0 ELSE SumOver(f, n - 1) + f[n]

\* C8: in every successful GET /costs/forecast, forecast_data has one entry
\* per forecast point of the provider, in the provider's order, and
\* total_forecast is the sum of the mean values.
C8_ForecastTotalAndOrder ==
    Succeeded("/costs/forecast")
    => LET forecast_data == response.body.forecast_data
       IN  /\ Len(forecast_data) = Len(ForecastPoints)
           /\ \A i \in 1..Len(forecast_data) :
                /\ forecast_data[i].date = ForecastPoints[i].TimePeriod.Start
                /\ forecast_data[i].mean_value = Float(ForecastPoints[i].MeanValue)
           /\ response.body.total_forecast
                 = SumOver([i \in 1..Len(forecast_data) |-> forecast_data[i].mean_value],
                           Len(forecast_data))
           /\ response.body.total_forecast
                 = SumOver([i \in 1..Len(ForecastPoints) |->
                               Float(ForecastPoints[i].MeanValue)],
                           Len(ForecastPoints))

\* C8 witness: a forecast of two points with different mean values.
C8_Witness ==
    /\ Succeeded("/costs/forecast")
    /\ Len(response.body.forecast_data) = 2
    /\ response.body.forecast_data[1].mean_value
          # response.body.forecast_data[2].mean_value

ChartLabels == response.body.chart_data.labels

\* The cost a bucket without groups reports as its total.
TotalCostOf(bucket) == Float(bucket.Total.BlendedCost.Amount)

\* Labels are the buckets' period starts and the one series their costs.
LabelsAndSeriesFollowBuckets ==
    /\ Len(ChartLabels) = Len(ProviderResults)
    /\ \A i \in 1..Len(ChartLabels) :
          ChartLabels[i] = ProviderResults[i].TimePeriod.Start
    /\ Len(Datasets) = 1
    /\ Len(Datasets[1].data) = Len(ChartLabels)
    /\ \A i \in 1..Len(ProviderResults) :
          ProviderResults[i].Groups = <<>>
             => Datasets[1].data[i] = TotalCostOf(ProviderResults[i])

\* C9 as stated: in a success without group_by, for every provider result
\* list, labels is the sequence of the buckets' period starts and the
\* single series has one cost per bucket, position by position.
C9_LabelsAndSeriesAligned ==
    (Succeeded("/costs/analyze") /\ request.params.group_by = None)
    => LabelsAndSeriesFollowBuckets

\* C9 amended: the same, for every provider result list in which no bucket
\* carries groups.
C9_LabelsAndSeriesAlignedWithoutGroups ==
    (/\ Succeeded("/costs/analyze")
     /\ request.params.group_by = None
     /\ \A i \in 1..Len(ProviderResults) : ProviderResults[i].Groups = <<>>)
    => LabelsAndSeriesFollowBuckets

\* C9 witness: two buckets without groups and with different costs.
C9_Witness ==
    /\ Succeeded("/costs/analyze")
    /\ request.params.group_by = None
    /\ Len(ProviderResults) = 2
    /\ \A i \in 1..Len(ProviderResults) : ProviderResults[i].Groups = <<>>
    /\ Datasets[1].data[1] # Datasets[1].data[2]
    /\ Len(ChartLabels) = 2

\* The number of records one bucket yields.
RecordsOf(bucket) == Max(1, Len(bucket.Groups))

\* The number of records the first n buckets yield.
RecordsBefore(results, n) ==
    SumOver([i \in 1..Len(results) |-> RecordsOf(results[i])], n)

\* C10: in a success, every bucket with groups yields one record per group,
\* in order, with the group's label ("Unknown" without keys) and cost; every
\* bucket without groups yields one record with its aggregate cost and no
\* group; the records follow the provider's order and there are no others.
C10_RecordsPerBucket ==
    Succeeded("/costs/analyze")
    => LET data == response.body.data
           results == ProviderResults
       IN  /\ Len(data) = RecordsBefore(results, Len(results))
           /\ \A i \in 1..Len(results) :
                LET base == RecordsBefore(results, i - 1)
                IN  IF results[i].Groups # <<>>
                    THEN \A k \in 1..Len(results[i].Groups) :
                           /\ "group" \in DOMAIN data[base + k]
                           /\ data[base + k].group = LabelOf(results[i].Groups[k])
                           /\ data[base + k].cost
                                 = Float(results[i].Groups[k].Metrics.BlendedCost.Amount)
                           /\ data[base + k].period_start = results[i].TimePeriod.Start
                    ELSE /\ "group" \notin DOMAIN data[base + 1]
                         /\ data[base + 1].cost = TotalCostOf(results[i])
                         /\ data[base + 1].period_start = results[i].TimePeriod.Start

\* C10 witness: a bucket of two groups, one without keys, and a bucket
\* without groups, yielding three records.
C10_Witness ==
    /\ Succeeded("/costs/analyze")
    /\ Len(ProviderResults) = 2
    /\ Len(ProviderResults[1].Groups) = 2
    /\ \E k \in 1..2 : ProviderResults[1].Groups[k].Keys = <<>>
    /\ ProviderResults[2].Groups = <<>>
    /\ Len(response.body.data) = 3

\* The groups of the provider's results, bucket after bucket.
RECURSIVE AllGroups(_)
AllGroups(results) ==
    IF results = <<>> THEN <<>>
    ELSE Head(results).Groups \o AllGroups(Tail(results))

\* The place at which the provider first returned a service.
FirstSeen(service, groups) ==
    CHOOSE k \in 1..Len(groups) :
        /\ LabelOf(groups[k]) = service
        /\ \A m \in 1..(k - 1) : LabelOf(groups[m]) # service

\* The cost of a service summed over all groups the provider returned.
SummedCost(service, groups) ==
    SumOver([k \in 1..Len(groups) |->
                IF LabelOf(groups[k]) = service
                THEN Float(groups[k].Metrics.BlendedCost.Amount) ELSE 0],
            Len(groups))

\* C11: in every successful GET /costs/services, two services of equal
\* summed cost that both appear in top_services appear in the order in which
\* the provider first returned them; and when the cut to limit keeps only
\* one of two such services, it keeps the one returned first.
C11_TiesKeepProviderOrder ==
    Succeeded("/costs/services")
    => LET groups == AllGroups(ProviderResults)
           shown == {TopServicesList[i].service : i \in 1..Len(TopServicesList)}
       IN  /\ \A i, j \in 1..Len(TopServicesList) :
                (/\ i < j
                 /\ SummedCost(TopServicesList[i].service, groups)
                       = SummedCost(TopServicesList[j].service, groups))
                => FirstSeen(TopServicesList[i].service, groups)
                      < FirstSeen(TopServicesList[j].service, groups)
           /\ \A a \in shown, b \in LabelsIn(ProviderResults) \ shown :
                SummedCost(a, groups) = SummedCost(b, groups)
                => FirstSeen(a, groups) < FirstSeen(b, groups)

\* C11 witness: S3 is returned before the keyless group, both sum to the
\* same cost, and both are shown, S3 first, while a third service is cut.
C11_Witness ==
    /\ Succeeded("/costs/services")
    /\ request.params.limit = 2
    /\ Cardinality(LabelsIn(ProviderResults)) = 3
    /\ Len(TopServicesList) = 2
    /\ TopServicesList[1].service = "S3"
    /\ TopServicesList[2].service = "Unknown"
    /\ TopServicesList[1].cost = TopServicesList[2].cost
    /\ FirstSeen("S3", AllGroups(ProviderResults))
          < FirstSeen("Unknown", AllGroups(ProviderResults))

====
